---------------------------- MODULE Spec2Model ----------------------------
(***************************************************************************)
(* A model of labs/04/wrappers.py, class ReplayBuffer (lines 202-244): a   *)
(* list-backed circular buffer with an optional capacity, signed indexing  *)
(* and random sampling.                                                    *)
(*                                                                         *)
(* The buffer never inspects an item (lines 216-244 only store, move and   *)
(* return references), so the items of a run are named by their position   *)
(* in the input stream: the n-th item ever stored is the number n.  Two    *)
(* items are then equal exactly when they are the same stored object,      *)
(* which is what eviction, order and sampling positions are about.         *)
(***************************************************************************)
EXTENDS Integers, Sequences, FiniteSets, TLC

(***************************************************************************)
(* Bounds of the model.                                                    *)
(***************************************************************************)
MaxCap == 3         \* largest max_length given to the constructor
MaxNegCap == 1      \* the constructor is also given 0, -1, ..., -MaxNegCap
MaxStream == 7      \* at most this many items are stored in one run
MaxExtend == 4      \* longest sequence handed to extend
MaxSample == 2      \* largest size handed to sample
MaxEvaluateFor == 2 \* largest evaluate_for given to EvaluationEnv
MaxEnvSteps == 4    \* at most this many steps of the wrapped environment
MaxReward == 1      \* the wrapped environment's rewards are 0..MaxReward
MaxDims == 2        \* most components of an observation
MaxSeps == 2        \* most separators of one component
MaxGrid == 1        \* separators are integers of 0..MaxGrid
MaxTiles == 3       \* largest tiles given to DiscretizationWrapper

MaxIndex == MaxStream + 1
IndexRange == (0 - MaxIndex)..MaxIndex

(***************************************************************************)
(* Python values and built-ins used by the class.                          *)
(***************************************************************************)
\* Optional[int]: None is the empty tuple, the integer c is <<c>>.
None == <<>>
IsNone(m) == m = None
Val(m) == m[1]

\* a % b of Python for b # 0: the result has the sign of b.
PyMod(a, b) == IF b > 0 THEN a % b ELSE 0 - ((0 - a) % (0 - b))

\* l[i] of a Python list of length n is defined for -n <= i < n.
ListIndexOk(i, n) == (0 - n) <= i /\ i < n
ListPos(i, n) == IF i < 0 THEN i + n + 1 ELSE i + 1
ListAt(l, i) == l[ListPos(i, Len(l))]
ListSet(l, i, x) == [l EXCEPT ![ListPos(i, Len(l))] = x]

Min(a, b) == IF a <= b THEN a ELSE b
Range(s) == {s[i] : i \in 1..Len(s)}
LastN(s, n) == SubSeq(s, Len(s) - n + 1, Len(s))

(***************************************************************************)
(* The state: the three fields of a ReplayBuffer, the stream of items      *)
(* stored so far (history), and the last call with its outcome.            *)
(***************************************************************************)
VARIABLES max_length, data, offset, stream, last

bufVars == <<max_length, data, offset, stream, last>>

(***************************************************************************)
(* An EvaluationEnv (lines 13-84): its fields, the wrapped environment     *)
(* (how often it was stepped), whether the process has exited, the last    *)
(* call with its outcome, and the history the claims speak of:             *)
(*   since        "new" until the first reset returns, "running" after a   *)
(*                reset returned, "over" after an episode-ending step      *)
(*   eval_started a reset(start_evaluation=True) has returned              *)
(*   cur_in_eval  the current episode began at or after that reset         *)
(*   eval_completed  how many such episodes have ended                     *)
(*   in_eval      for each recorded return, whether its episode was one    *)
(***************************************************************************)
VARIABLES evaluate_for, episode_running, episode_returns, evaluating_from,
          episode_return, env_steps, exited, elast,
          since, eval_started, cur_in_eval, eval_completed, in_eval

envVars == <<evaluate_for, episode_running, episode_returns, evaluating_from,
             episode_return, env_steps, exited, elast,
             since, eval_started, cur_in_eval, eval_completed, in_eval>>

(***************************************************************************)
(* A DiscretizationWrapper (lines 87-129) and one call of observation:     *)
(* the constructor's separators and tiles, the observations handed in, and *)
(* what the call returned (dret, once dpc is "returned").  A scalar result *)
(* is the one-element tuple.                                               *)
(***************************************************************************)
VARIABLES separators, tiles, observations, dpc, dret

disVars == <<separators, tiles, observations, dpc, dret>>

vars == <<bufVars, envVars, disVars>>

\* DiscretizationWrapper.__init__ with separators seps and tiles t, and a
\* call of observation(obs) about to be made
DisConstructed(seps, t, obs) ==
    /\ separators = seps
    /\ tiles = t
    /\ observations = obs
    /\ dpc = "call"
    /\ dret = <<>>

Env == [evaluate_for |-> evaluate_for, episode_running |-> episode_running,
        episode_returns |-> episode_returns, evaluating_from |-> evaluating_from,
        episode_return |-> episode_return, env_steps |-> env_steps,
        exited |-> exited]

Hist == [since |-> since, eval_started |-> eval_started,
         cur_in_eval |-> cur_in_eval, eval_completed |-> eval_completed,
         in_eval |-> in_eval]

\* EvaluationEnv.__init__ with evaluate_for = e (render_each = 0, so that
\* lines 46-49 and 80-82 do nothing; the reports of lines 67-76 are output)
EnvConstructed(e) ==
    /\ evaluate_for = e
    /\ episode_running = FALSE
    /\ episode_returns = <<>>
    /\ evaluating_from = None
    /\ episode_return = None
    /\ env_steps = 0
    /\ exited = FALSE
    /\ since = "new"
    /\ eval_started = FALSE
    /\ cur_in_eval = FALSE
    /\ eval_completed = 0
    /\ in_eval = <<>>
    /\ elast = [op |-> "none", ok |-> TRUE, err |-> "",
                start_evaluation |-> FALSE, logging |-> TRUE, seeded |-> FALSE,
                reward |-> 0, terminated |-> FALSE, truncated |-> FALSE,
                pre |-> [evaluate_for |-> e, episode_running |-> FALSE,
                         episode_returns |-> <<>>, evaluating_from |-> None,
                         episode_return |-> None, env_steps |-> 0,
                         exited |-> FALSE],
                hist |-> [since |-> "new", eval_started |-> FALSE,
                          cur_in_eval |-> FALSE, eval_completed |-> 0,
                          in_eval |-> <<>>]]

\* ReplayBuffer.__init__ with max_length = m
BufConstructed(m) ==
    /\ max_length = m
    /\ data = <<>>
    /\ offset = 0
    /\ stream = <<>>
    /\ last = [op |-> "none", ok |-> TRUE, err |-> "", items |-> <<>>,
               index |-> 0, size |-> 0, replace |-> TRUE, draws |-> <<>>,
               ret |-> <<>>,
               pre |-> [max_length |-> m, data |-> <<>>, offset |-> 0]]

Buf == [max_length |-> max_length, data |-> data, offset |-> offset]

\* max_length values the constructor is given: None, and every integer of
\* -MaxNegCap..MaxCap (the constructor checks nothing).
Capacities == {None} \cup {<<c>> : c \in (0 - MaxNegCap)..MaxCap}

\* ReplayBuffer.__init__
Init ==
    /\ max_length \in Capacities
    /\ data = <<>>
    /\ offset = 0
    /\ stream = <<>>
    /\ last = [op |-> "none", ok |-> TRUE, err |-> "", items |-> <<>>,
               index |-> 0, size |-> 0, replace |-> TRUE, draws |-> <<>>,
               ret |-> <<>>,
               pre |-> [max_length |-> max_length, data |-> <<>>, offset |-> 0]]
    /\ EnvConstructed(1)
    /\ DisConstructed(<<>>, None, <<>>)

\* ReplayBuffer.__len__
len(b) == Len(b.data)

(***************************************************************************)
(* ReplayBuffer.append (lines 216-221).  The outcome of a call is the      *)
(* buffer it leaves and whether it returned (ok) or raised (err).          *)
(***************************************************************************)
Returned(b) == [ok |-> TRUE, err |-> "", buf |-> b]
Raised(e, b) == [ok |-> FALSE, err |-> e, buf |-> b]

\* a slip: > for >=
appendOverwritesLate(b) == ~IsNone(b.max_length) /\ Len(b.data) > Val(b.max_length)

\* line 217: self._max_length is not None and len(self._data) >= self._max_length
appendOverwrites(b) == ~IsNone(b.max_length) /\ Len(b.data) >= Val(b.max_length)

\* a slip: the newest slot is overwritten instead of the one at _offset
appendSlotNewest(b) == Len(b.data) - 1

\* line 218: self._data[self._offset] = item
appendSlot(b) == b.offset

\* a slip: the modulo is forgotten
appendNextOffsetNoWrap(b) == b.offset + 1

\* a slip: the offset is not advanced
appendNextOffsetStuck(b) == b.offset

\* line 219: (self._offset + 1) % self._max_length
appendNextOffset(b) == PyMod(b.offset + 1, Val(b.max_length))

\* a slip: the oldest item is removed and the others shifted (a deque's way)
appendShifting(b, item) ==
    IF appendOverwrites(b) /\ Len(b.data) >= 1
    THEN Returned([b EXCEPT !.data = Append(Tail(b.data), item)])
    ELSE IF appendOverwrites(b)
    THEN Raised("IndexError", b)
    ELSE Returned([b EXCEPT !.data = Append(b.data, item)])

append(b, item) ==
    IF appendOverwrites(b)
    THEN IF ~ListIndexOk(appendSlot(b), Len(b.data))
         THEN Raised("IndexError", b)
         ELSE LET stored == [b EXCEPT !.data = ListSet(b.data, appendSlot(b), item)]
              IN  IF Val(b.max_length) = 0
                  THEN Raised("ZeroDivisionError", stored)
                  ELSE Returned([stored EXCEPT !.offset = appendNextOffset(b)])
    ELSE Returned([b EXCEPT !.data = Append(b.data, item)])

(***************************************************************************)
(* ReplayBuffer.extend (lines 223-232).  The loop body repeats the code of *)
(* append without the None test; an exception leaves the loop with the     *)
(* items stored so far.                                                    *)
(***************************************************************************)
\* a slip: > for >=
extendOverwritesLate(b) == Len(b.data) > Val(b.max_length)

\* line 228: len(self._data) >= self._max_length
extendOverwrites(b) == Len(b.data) >= Val(b.max_length)

\* lines 228-232, one iteration
extendBody(b, item) ==
    IF extendOverwrites(b)
    THEN IF ~ListIndexOk(b.offset, Len(b.data))
         THEN Raised("IndexError", b)
         ELSE LET stored == [b EXCEPT !.data = ListSet(b.data, b.offset, item)]
              IN  IF Val(b.max_length) = 0
                  THEN Raised("ZeroDivisionError", stored)
                  ELSE Returned([stored EXCEPT
                                   !.offset = PyMod(b.offset + 1, Val(b.max_length))])
    ELSE Returned([b EXCEPT !.data = Append(b.data, item)])

\* lines 227-232, the for loop
RECURSIVE extendLoop(_, _)
extendLoop(b, items) ==
    IF items = <<>>
    THEN Returned(b)
    ELSE LET r == extendBody(b, Head(items))
         IN  IF r.ok THEN extendLoop(r.buf, Tail(items)) ELSE r

extend(b, items) ==
    IF IsNone(b.max_length)
    THEN Returned([b EXCEPT !.data = b.data \o items])
    ELSE extendLoop(b, items)

(***************************************************************************)
(* ReplayBuffer.__getitem__ (lines 234-236).                               *)
(***************************************************************************)
\* a slip: <= for <
getitemInRangeInclusive(b, index) ==
    (0 - Len(b.data)) <= index /\ index <= Len(b.data)

\* line 235: assert -len(self._data) <= index < len(self._data)
getitemInRange(b, index) == (0 - Len(b.data)) <= index /\ index < Len(b.data)

\* a slip: the offset is left out
getitemSlotNoOffset(b, index) == PyMod(index, Len(b.data))

\* line 236: (self._offset + index) % len(self._data)
getitemSlot(b, index) == PyMod(b.offset + index, Len(b.data))

getitem(b, index) ==
    IF ~getitemInRange(b, index)
    THEN [ok |-> FALSE, err |-> "AssertionError", ret |-> <<>>]
    ELSE IF Len(b.data) = 0
    THEN [ok |-> FALSE, err |-> "ZeroDivisionError", ret |-> <<>>]
    ELSE IF ~ListIndexOk(getitemSlot(b, index), Len(b.data))
    THEN [ok |-> FALSE, err |-> "IndexError", ret |-> <<>>]
    ELSE [ok |-> TRUE, err |-> "", ret |-> <<ListAt(b.data, getitemSlot(b, index))>>]

(***************************************************************************)
(* ReplayBuffer.sample (lines 238-244).  The generator's answers are the   *)
(* nondeterminism of the call: randint(n, size=size) is any sequence of    *)
(* size integers of 0..n-1 and raises ValueError for n = 0 unless size is  *)
(* 0; choice(n, size=size, replace=False) is any sequence of size distinct *)
(* integers of 0..n-1 and raises ValueError when size > n.                 *)
(***************************************************************************)
DrawSeqs(n, size) == IF size = 0 THEN {<<>>} ELSE [1..size -> 0..(n - 1)]
Distinct(s) == \A i, j \in 1..Len(s) : i # j => s[i] # s[j]

\* line 242: generator.randint(len(self._data), size=size)
randint(n, size) ==
    IF size > 0 /\ n <= 0
    THEN [ok |-> FALSE, draws |-> {}]
    ELSE [ok |-> TRUE, draws |-> DrawSeqs(n, size)]

\* line 244: generator.choice(len(self._data), size=size, replace=False)
choice(n, size) ==
    IF size > n
    THEN [ok |-> FALSE, draws |-> {}]
    ELSE [ok |-> TRUE, draws |-> {s \in DrawSeqs(n, size) : Distinct(s)}]

\* a slip: replace=False is not passed on
sampleDrawsAlwaysRepeat(b, size, replace) == randint(Len(b.data), size)

\* lines 241-244: which generator call the replace flag selects
sampleDraws(b, size, replace) ==
    IF replace THEN randint(Len(b.data), size) ELSE choice(Len(b.data), size)

\* a slip: the drawn indices are read through __getitem__
sampleItemsLogical(b, draws) ==
    [j \in 1..Len(draws) |-> ListAt(b.data, getitemSlot(b, draws[j]))]

\* a slip: the drawn indices are returned instead of the items
sampleItemsIndices(b, draws) == draws

\* lines 242, 244: [self._data[index] for index in ...]
sampleItems(b, draws) == [j \in 1..Len(draws) |-> ListAt(b.data, draws[j])]

(***************************************************************************)
(* The calls.  Every call records itself, its arguments, the buffer it     *)
(* found (pre) and its outcome in last.                                    *)
(***************************************************************************)
Call(op) ==
    [op |-> op, ok |-> TRUE, err |-> "", items |-> <<>>, index |-> 0,
     size |-> 0, replace |-> TRUE, draws |-> <<>>, ret |-> <<>>, pre |-> Buf]

\* the next k items of the stream
Fresh(k) == [i \in 1..k |-> Len(stream) + i]

Store(r, items) ==
    /\ data' = r.buf.data
    /\ offset' = r.buf.offset
    /\ stream' = IF r.ok THEN stream \o items ELSE stream
    /\ UNCHANGED max_length
    /\ UNCHANGED <<envVars, disVars>>

AppendCall ==
    /\ Len(stream) < MaxStream
    /\ LET item == Fresh(1)[1]
           r == append(Buf, item)
       IN  /\ Store(r, <<item>>)
           /\ last' = [Call("append") EXCEPT !.items = <<item>>,
                                              !.ok = r.ok, !.err = r.err]

ExtendCall ==
    \E k \in 0..MaxExtend :
        /\ Len(stream) + k <= MaxStream
        /\ LET items == Fresh(k)
               r == extend(Buf, items)
           IN  /\ Store(r, items)
               /\ last' = [Call("extend") EXCEPT !.items = items,
                                                  !.ok = r.ok, !.err = r.err]

LenCall ==
    /\ last' = [Call("len") EXCEPT !.ret = <<len(Buf)>>]
    /\ UNCHANGED <<max_length, data, offset, stream>>
    /\ UNCHANGED <<envVars, disVars>>

GetItemCall ==
    \E index \in IndexRange :
        LET r == getitem(Buf, index)
        IN  /\ last' = [Call("getitem") EXCEPT !.index = index, !.ok = r.ok,
                                                 !.err = r.err, !.ret = r.ret]
            /\ UNCHANGED <<max_length, data, offset, stream>>
            /\ UNCHANGED <<envVars, disVars>>

\* a slip: sampling without replacement shuffles the storage in place and
\* returns its first size items
SampleCallShuffling ==
    \E size \in 0..MaxSample, replace \in BOOLEAN :
        LET g == sampleDraws(Buf, size, replace)
            c == [Call("sample") EXCEPT !.size = size, !.replace = replace]
        IN  /\ IF g.ok
               THEN \E draws \in g.draws :
                        /\ last' = [c EXCEPT !.draws = draws,
                                             !.ret = sampleItems(Buf, draws)]
                        /\ data' = IF replace \/ data = <<>>
                                   THEN data
                                   ELSE Append(Tail(data), Head(data))
               ELSE /\ last' = [c EXCEPT !.ok = FALSE, !.err = "ValueError"]
                    /\ data' = data
            /\ UNCHANGED <<max_length, offset, stream>>
            /\ UNCHANGED <<envVars, disVars>>

SampleCall ==
    \E size \in 0..MaxSample, replace \in BOOLEAN :
        LET g == sampleDraws(Buf, size, replace)
            c == [Call("sample") EXCEPT !.size = size, !.replace = replace]
        IN  /\ IF g.ok
               THEN \E draws \in g.draws :
                        last' = [c EXCEPT !.draws = draws,
                                          !.ret = sampleItems(Buf, draws)]
               ELSE last' = [c EXCEPT !.ok = FALSE, !.err = "ValueError"]
            /\ UNCHANGED <<max_length, data, offset, stream>>
            /\ UNCHANGED <<envVars, disVars>>

Next == AppendCall \/ ExtendCall \/ LenCall \/ GetItemCall \/ SampleCall

Spec == Init /\ [][Next]_vars

(***************************************************************************)
(* EvaluationEnv.reset (lines 38-52) and EvaluationEnv.step (lines 54-84), *)
(* as functions of the wrapper's state e.  The wrapped environment answers *)
(* a step with any reward of 0..MaxReward and any terminated and truncated *)
(* flags.                                                                  *)
(***************************************************************************)
EnvReturned(e) == [ok |-> TRUE, err |-> "", env |-> e]
EnvRaised(e) == [ok |-> FALSE, err |-> "RuntimeError", env |-> e]

\* property episode (lines 34-36)
episode(e) == Len(e.episode_returns)

\* a slip: the test of line 41 is left out
resetRefusedNever(e) == FALSE

\* line 41: self._evaluating_from is not None and self._episode_running
resetRefused(e) == ~IsNone(e.evaluating_from) /\ e.episode_running

\* lines 43-44
resetEvaluatingFrom(e, start_evaluation) ==
    IF start_evaluation /\ IsNone(e.evaluating_from)
    THEN <<episode(e)>>
    ELSE e.evaluating_from

\* line 51: 0 if logging or self._evaluating_from is not None else None
resetEpisodeReturn(from, logging) ==
    IF logging \/ ~IsNone(from) THEN <<0>> ELSE None

reset(e, start_evaluation, logging, seeded) ==
    IF seeded
    THEN EnvRaised(e)
    ELSE IF resetRefused(e)
    THEN EnvRaised(e)
    ELSE LET from == resetEvaluatingFrom(e, start_evaluation)
         IN  EnvReturned([e EXCEPT
                 !.evaluating_from = from,
                 !.episode_running = TRUE,
                 !.episode_return = resetEpisodeReturn(from, logging)])

\* a slip: the test of line 55 is left out
stepRefusedNever(e) == FALSE

\* line 55: not self._episode_running
stepRefused(e) == ~e.episode_running

\* a slip: > for >=
evaluationOverLate(e) ==
    /\ ~IsNone(e.evaluating_from)
    /\ episode(e) > Val(e.evaluating_from) + e.evaluate_for

\* line 73: self._evaluating_from is not None and
\*          self.episode >= self._evaluating_from + self._evaluate_for
evaluationOver(e) ==
    /\ ~IsNone(e.evaluating_from)
    /\ episode(e) >= Val(e.evaluating_from) + e.evaluate_for

step(e, reward, terminated, truncated) ==
    IF stepRefused(e)
    THEN EnvRaised(e)
    ELSE LET done == terminated \/ truncated
             ret == IF IsNone(e.episode_return)
                    THEN None
                    ELSE <<Val(e.episode_return) + reward>>
             e1 == [e EXCEPT !.env_steps = e.env_steps + 1,
                             !.episode_running = ~done,
                             !.episode_return = ret]
             e2 == IF ~IsNone(ret) /\ done
                   THEN [e1 EXCEPT
                            !.episode_returns = Append(e.episode_returns, Val(ret))]
                   ELSE e1
         IN  IF ~IsNone(ret) /\ done /\ evaluationOver(e2)
             THEN EnvReturned([e2 EXCEPT !.exited = TRUE])
             ELSE EnvReturned(e2)

(***************************************************************************)
(* The calls on an EvaluationEnv.  After sys.exit(0) there are none.       *)
(***************************************************************************)
EnvCall(op) ==
    [op |-> op, ok |-> TRUE, err |-> "",
     start_evaluation |-> FALSE, logging |-> TRUE, seeded |-> FALSE,
     reward |-> 0, terminated |-> FALSE, truncated |-> FALSE,
     pre |-> Env, hist |-> Hist]

EnvStore(e) ==
    /\ episode_running' = e.episode_running
    /\ episode_returns' = e.episode_returns
    /\ evaluating_from' = e.evaluating_from
    /\ episode_return' = e.episode_return
    /\ env_steps' = e.env_steps
    /\ exited' = e.exited
    /\ UNCHANGED evaluate_for

ResetCall ==
    /\ ~exited
    /\ \E start_evaluation \in BOOLEAN, logging \in BOOLEAN, seeded \in BOOLEAN :
           LET r == reset(Env, start_evaluation, logging, seeded)
           IN  /\ EnvStore(r.env)
               /\ elast' = [EnvCall("reset") EXCEPT
                                !.start_evaluation = start_evaluation,
                                !.logging = logging, !.seeded = seeded,
                                !.ok = r.ok, !.err = r.err]
               /\ since' = IF r.ok THEN "running" ELSE since
               /\ eval_started' = (eval_started \/ (r.ok /\ start_evaluation))
               /\ cur_in_eval' = IF r.ok
                                 THEN eval_started \/ start_evaluation
                                 ELSE cur_in_eval
               /\ UNCHANGED <<eval_completed, in_eval>>
    /\ UNCHANGED <<bufVars, disVars>>

StepCall ==
    /\ ~exited
    /\ env_steps < MaxEnvSteps
    /\ \E reward \in 0..MaxReward, terminated \in BOOLEAN, truncated \in BOOLEAN :
           LET r == step(Env, reward, terminated, truncated)
               ended == r.ok /\ (terminated \/ truncated)
               recorded == Len(r.env.episode_returns) > Len(episode_returns)
           IN  /\ EnvStore(r.env)
               /\ elast' = [EnvCall("step") EXCEPT
                                !.reward = reward, !.terminated = terminated,
                                !.truncated = truncated,
                                !.ok = r.ok, !.err = r.err]
               /\ since' = IF ended THEN "over" ELSE since
               /\ eval_completed' = IF ended /\ cur_in_eval
                                    THEN eval_completed + 1
                                    ELSE eval_completed
               /\ in_eval' = IF recorded THEN Append(in_eval, cur_in_eval)
                             ELSE in_eval
               /\ UNCHANGED <<eval_started, cur_in_eval>>
    /\ UNCHANGED <<bufVars, disVars>>

InitEnv ==
    /\ BufConstructed(None)
    /\ DisConstructed(<<>>, None, <<>>)
    /\ \E e \in 0..MaxEvaluateFor : EnvConstructed(e)

NextEnv == ResetCall \/ StepCall

SpecEnv == InitEnv /\ [][NextEnv]_vars

(***************************************************************************)
(* DiscretizationWrapper (lines 87-129).  Separators and observations are  *)
(* integers.  The shifted value of line 123 is observation + k * (s[1] -   *)
(* s[0]) / tiles; it is kept as the integer tiles * value and compared     *)
(* with tiles * separator and tiles * top, which orders them alike.        *)
(***************************************************************************)
\* np.digitize(x, bins) for increasing bins: how many bins are <= x; here
\* with x given as scale * x
digitize(x, bins, scale) ==
    Cardinality({j \in 1..Len(bins) : scale * bins[j] <= x})

\* lines 94-96 and 100-102: the product of extra + len(separator)
RECURSIVE statesProduct(_, _)
statesProduct(seps, extra) ==
    IF seps = <<>>
    THEN 1
    ELSE (extra + Len(Head(seps))) * statesProduct(Tail(seps), extra)

\* line 101
firstTileStates(seps) == statesProduct(seps, 1)

\* line 102
restTilesStates(seps) == statesProduct(seps, 2)

\* lines 97 and 103-104: the sizes of the declared observation space,
\* Discrete(n) as <<n>>
observationSpace(seps, t) ==
    IF IsNone(t)
    THEN <<firstTileStates(seps)>>
    ELSE [i \in 1..Val(t) |->
              firstTileStates(seps) + (i - 1) * restTilesStates(seps)]

\* line 106, times tiles
separatorOffset(sep) == IF Len(sep) <= 1 THEN 0 ELSE sep[2] - sep[1]

\* line 107: np.inf when len(s) <= 1
separatorHasTop(sep) == Len(sep) > 1
separatorTop(sep) == sep[Len(sep)] + (sep[2] - sep[1])

\* lines 110-113: the loop over zip(observations, separators), from
\* component i on
RECURSIVE firstTileState(_, _, _, _)
firstTileState(obs, seps, i, state) ==
    IF i > Min(Len(obs), Len(seps))
    THEN state
    ELSE firstTileState(obs, seps, i + 1,
             state * (1 + Len(seps[i])) + digitize(obs[i], seps[i], 1))

\* lines 123-127: the digit of component i (from 0) in tile t of T
tileDigit(obs, seps, i, t, T) ==
    LET value == T * obs[i + 1]
                     + ((t * (2 * i + 1)) % T) * separatorOffset(seps[i + 1])
    IN  IF separatorHasTop(seps[i + 1]) /\ value > T * separatorTop(seps[i + 1])
        THEN 1 + Len(seps[i + 1])
        ELSE digitize(value, seps[i + 1], T)

\* lines 120-127: the loop over range(len(self._separators)), from i on
RECURSIVE tileState(_, _, _, _, _, _)
tileState(obs, seps, t, T, i, state) ==
    IF i >= Len(seps)
    THEN state
    ELSE tileState(obs, seps, t, T, i + 1,
             state * (2 + Len(seps[i + 1])) + tileDigit(obs, seps, i, t, T))

\* a slip: t for t - 1
tileBaseOffByOne(seps, t) == firstTileStates(seps) + t * restTilesStates(seps)

\* line 128: self._first_tile_states + (t - 1) * self._rest_tiles_states
tileBase(seps, t) == firstTileStates(seps) + (t - 1) * restTilesStates(seps)

\* DiscretizationWrapper.observation
observation(obs, seps, t) ==
    IF IsNone(t)
    THEN <<firstTileState(obs, seps, 1, 0)>>
    ELSE [k \in 1..Val(t) |->
              IF k = 1
              THEN firstTileState(obs, seps, 1, 0)
              ELSE tileBase(seps, k - 1)
                       + tileState(obs, seps, k - 1, Val(t), 0, 0)]

\* the increasing sequences of at most MaxSeps integers of 0..MaxGrid
Increasing(sep) == \A j \in 1..(Len(sep) - 1) : sep[j] < sep[j + 1]
SeparatorChoices ==
    UNION {{sep \in [1..n -> 0..MaxGrid] : Increasing(sep)} : n \in 0..MaxSeps}

ObservationRange == (0 - 1)..(MaxGrid + 1)

TilesChoices == {None} \cup {<<T>> : T \in 1..MaxTiles}

ObserveCall ==
    /\ dpc = "call"
    /\ dret' = observation(observations, separators, tiles)
    /\ dpc' = "returned"
    /\ UNCHANGED <<separators, tiles, observations>>
    /\ UNCHANGED <<bufVars, envVars>>

InitDis ==
    /\ BufConstructed(None)
    /\ EnvConstructed(1)
    /\ \E n \in 1..MaxDims :
           \E seps \in [1..n -> SeparatorChoices], obs \in [1..n -> ObservationRange],
              t \in TilesChoices :
               DisConstructed(seps, t, obs)

NextDis == ObserveCall

SpecDis == InitDis /\ [][NextDis]_vars

(***************************************************************************)
(* What the claims speak of.                                               *)
(***************************************************************************)
\* the capacity is unset or positive
Positive(b) == IsNone(b.max_length) \/ Val(b.max_length) >= 1

\* every get(0), ..., get(length()-1) returns
ReadsReturn(b) == \A i \in 0..(len(b) - 1) : getitem(b, i).ok

\* the logical contents: get(0), ..., get(length()-1)
Contents(b) == [i \in 1..len(b) |-> getitem(b, i - 1).ret[1]]

\* how many items of a stream of n items a buffer of capacity m retains
Retained(m, n) == IF IsNone(m) THEN n ELSE Min(n, Val(m))

\* C1: with a positive or unset capacity, after any interleaving of append
\* and extend calls that stored the stream s_1..s_N, get(0), ...,
\* get(length()-1) all return and are the last min(N, C) items of the
\* stream (all N when the capacity is unset), oldest first.
C1_LogicalContents ==
    Positive(Buf) =>
        /\ ReadsReturn(Buf)
        /\ Contents(Buf) = LastN(stream, Retained(max_length, Len(stream)))

\* an extend on a bounded buffer that had already wrapped carried the write
\* position across the end of the storage, and the contents are the last C
\* items of the stream
C1_Witness ==
    /\ last.op = "extend"
    /\ ~IsNone(max_length)
    /\ Val(max_length) = MaxCap
    /\ last.pre.offset > 0
    /\ last.pre.offset + Len(last.items) > Val(max_length)
    /\ offset > 0
    /\ ReadsReturn(Buf)
    /\ Contents(Buf) = LastN(stream, MaxCap)

\* C2: with a positive or unset capacity C, in every reachable state
\* 0 <= length() <= C, and after N items were stored in total length() is
\* min(N, C), or N when the capacity is unset; a length() call returns it.
C2_CapacityBound ==
    Positive(Buf) =>
        /\ 0 <= len(Buf)
        /\ ~IsNone(max_length) => len(Buf) <= Val(max_length)
        /\ len(Buf) = Retained(max_length, Len(stream))
        /\ last.op = "len" => last.ret = <<Retained(max_length, Len(stream))>>

\* an append found the bounded buffer full and left it full
C2_Witness ==
    /\ last.op = "append"
    /\ ~IsNone(max_length)
    /\ Val(max_length) >= 2
    /\ len(last.pre) = Val(max_length)
    /\ Len(stream) > Val(max_length) + 1
    /\ len(Buf) = Val(max_length)

\* C3: an append(x) that finds length() = capacity returns, leaves length()
\* unchanged, moves every other item down by one logical position, makes x
\* the item at length()-1, and the item that was at logical index 0 is no
\* longer returned by get for any index.
C3_FifoEviction ==
    (/\ last.op = "append"
     /\ Positive(last.pre)
     /\ ~IsNone(last.pre.max_length)
     /\ len(last.pre) = Val(last.pre.max_length)) =>
        LET old == last.pre
            n == len(last.pre)
        IN  /\ last.ok
            /\ len(Buf) = n
            /\ ReadsReturn(old)
            /\ ReadsReturn(Buf)
            /\ \A i \in 0..(n - 2) : getitem(Buf, i).ret = getitem(old, i + 1).ret
            /\ getitem(Buf, n - 1).ret = last.items
            /\ \A i \in IndexRange : getitem(Buf, i).ret # getitem(old, 0).ret

\* an append on a full buffer of capacity 3 whose offset was already 2, so
\* that the offset wraps to 0
C3_Witness ==
    /\ last.op = "append"
    /\ last.ok
    /\ ~IsNone(max_length)
    /\ len(last.pre) = Val(max_length)
    /\ Val(max_length) >= 3
    /\ last.pre.offset = Val(max_length) - 1
    /\ offset = 0
    /\ getitem(Buf, len(Buf) - 1).ret = last.items

\* C4: get(index) raises for every index outside [-length(), length()) in
\* every reachable state, returns no item, and leaves the buffer as it was.
C4_GetOutOfRange ==
    /\ \A i \in IndexRange :
           (i < 0 - len(Buf) \/ i >= len(Buf)) =>
               /\ ~getitem(Buf, i).ok
               /\ getitem(Buf, i).ret = <<>>
    /\ (/\ last.op = "getitem"
        /\ (last.index < 0 - len(last.pre) \/ last.index >= len(last.pre))) =>
           /\ ~last.ok
           /\ last.err = "AssertionError"
           /\ last.ret = <<>>
           /\ Buf = last.pre

\* get(length()) raised on a full buffer whose offset has moved
C4_Witness ==
    /\ last.op = "getitem"
    /\ ~IsNone(max_length)
    /\ len(Buf) = Val(max_length)
    /\ offset > 0
    /\ last.index = len(Buf)
    /\ ~last.ok
    /\ Buf = last.pre

\* C5: in every reachable non-empty state get(-k) = get(length()-k) for
\* 1 <= k <= length(); get(-1) is the item stored last and get(0) the oldest
\* item still retained.
C5_SignedIndexing ==
    len(Buf) >= 1 =>
        /\ \A k \in 1..len(Buf) :
               /\ getitem(Buf, 0 - k).ok
               /\ getitem(Buf, len(Buf) - k).ok
               /\ getitem(Buf, 0 - k).ret = getitem(Buf, len(Buf) - k).ret
        /\ getitem(Buf, 0 - 1).ret = <<stream[Len(stream)]>>
        /\ getitem(Buf, 0).ret = <<stream[Len(stream) - len(Buf) + 1]>>

\* get(-1) on a full buffer whose offset has moved returned the newest item
C5_Witness ==
    /\ last.op = "getitem"
    /\ last.index = 0 - 1
    /\ ~IsNone(max_length)
    /\ len(Buf) = Val(max_length)
    /\ offset > 0
    /\ last.ok
    /\ last.ret = <<stream[Len(stream)]>>

\* append applied to each item in order, stopping at the first that raises
RECURSIVE appendEach(_, _)
appendEach(b, items) ==
    IF items = <<>>
    THEN Returned(b)
    ELSE LET r == append(b, Head(items))
         IN  IF r.ok THEN appendEach(r.buf, Tail(items)) ELSE r

\* C6: from every reachable state and for every items sequence, extend(items)
\* and append on each item in order leave the same storage, offset and
\* length (and raise alike); an empty sequence changes nothing, and of a
\* sequence longer than the capacity the last capacity items are retained.
C6_ExtendIsRepeatedAppend ==
    /\ \A k \in 0..MaxExtend : extend(Buf, Fresh(k)) = appendEach(Buf, Fresh(k))
    /\ last.op = "extend" =>
           LET r == appendEach(last.pre, last.items)
           IN  /\ last.ok = r.ok
               /\ last.err = r.err
               /\ Buf = r.buf
               /\ last.items = <<>> => Buf = last.pre
               /\ (/\ Positive(Buf)
                   /\ ~IsNone(max_length)
                   /\ Len(last.items) > Val(max_length)) =>
                      /\ ReadsReturn(Buf)
                      /\ Contents(Buf) = LastN(last.items, Val(max_length))

\* an extend with more items than the capacity on a buffer that had wrapped
C6_Witness ==
    /\ last.op = "extend"
    /\ last.ok
    /\ ~IsNone(max_length)
    /\ Val(max_length) >= 2
    /\ last.pre.offset > 0
    /\ Len(last.items) > Val(max_length)
    /\ Buf = appendEach(last.pre, last.items).buf
    /\ Contents(Buf) = LastN(last.items, Val(max_length))

\* the items overwritten so far
Evicted == Range(SubSeq(stream, 1, Len(stream) - len(Buf)))

\* C7: a sample(count) that returns on a non-empty buffer, with or without
\* replacement, returns exactly count items, each of them currently
\* retained and none of them evicted.
C7_SampleFromContents ==
    (last.op = "sample" /\ last.ok /\ len(Buf) >= 1) =>
        /\ Len(last.ret) = last.size
        /\ ReadsReturn(Buf)
        /\ \A j \in 1..Len(last.ret) :
               /\ last.ret[j] \in Range(Contents(Buf))
               /\ last.ret[j] \notin Evicted

\* a sample with replacement drew the same position twice from a buffer that
\* has evicted items
C7_Witness ==
    /\ last.op = "sample"
    /\ last.ok
    /\ last.replace
    /\ last.size >= 2
    /\ Evicted # {}
    /\ offset > 0
    /\ last.draws[1] = last.draws[2]
    /\ last.ret[1] = last.ret[2]
    /\ last.ret[1] \in Range(Contents(Buf))

\* C8: sample(k, replace=False) with k <= length() returns k items taken
\* from k pairwise distinct positions; with k = length() the result is a
\* permutation of the current contents.
C8_SampleWithoutReplacement ==
    (last.op = "sample" /\ ~last.replace /\ last.size <= len(Buf)) =>
        /\ last.ok
        /\ Len(last.draws) = last.size
        /\ Len(last.ret) = last.size
        /\ Distinct(last.draws)
        /\ Distinct(last.ret)
        /\ \A j \in 1..Len(last.ret) :
               /\ last.draws[j] \in 0..(len(Buf) - 1)
               /\ last.ret[j] = data[last.draws[j] + 1]
        /\ last.size = len(Buf) =>
               /\ ReadsReturn(Buf)
               /\ Range(last.ret) = Range(Contents(Buf))

\* sample(2, replace=False) on a wrapped buffer of two items returned both,
\* the newer first
C8_Witness ==
    /\ last.op = "sample"
    /\ ~last.replace
    /\ last.ok
    /\ last.size = 2
    /\ len(Buf) = 2
    /\ offset > 0
    /\ last.ret = <<stream[Len(stream)], stream[Len(stream) - 1]>>

\* C9: sample(count, replace=False) with count > length() raises, returns
\* nothing and leaves the buffer as it was.
C9_SampleTooMany ==
    (last.op = "sample" /\ ~last.replace /\ last.size > len(last.pre)) =>
        /\ ~last.ok
        /\ last.err = "ValueError"
        /\ last.ret = <<>>
        /\ Buf = last.pre

\* sample(2, replace=False) raised on a buffer holding one item
C9_Witness ==
    /\ last.op = "sample"
    /\ ~last.replace
    /\ len(Buf) = 1
    /\ last.size = 2
    /\ ~last.ok
    /\ Buf = last.pre

\* C10: a non-positive capacity is rejected by the constructor, so append is
\* only ever called on a buffer whose capacity is unset or positive, and
\* returns.
C10_NonPositiveCapacityRejected ==
    last.op = "append" => (Positive(Buf) /\ last.ok)

\* how many of k items stored into buffer b overwrite an older item
Overwrites(b, k) ==
    IF IsNone(b.max_length) \/ len(b) + k <= Val(b.max_length)
    THEN 0
    ELSE len(b) + k - Val(b.max_length)

\* C11: with a positive capacity C, 0 <= offset < C in every reachable state;
\* the offset is 0 as long as length() < C; once length() = C the physical
\* slot at the offset holds the oldest retained item; and every overwrite
\* advances the offset by exactly one modulo C.
C11_WriteCursor ==
    (~IsNone(max_length) /\ Val(max_length) >= 1) =>
        /\ 0 <= offset
        /\ offset < Val(max_length)
        /\ len(Buf) < Val(max_length) => offset = 0
        /\ len(Buf) = Val(max_length) =>
               data[offset + 1] = stream[Len(stream) - len(Buf) + 1]
        /\ last.op \in {"append", "extend"} =>
               offset = (last.pre.offset + Overwrites(last.pre, Len(last.items)))
                            % Val(max_length)
        /\ (last.op = "append" /\ len(last.pre) = Val(max_length)) =>
               offset = (last.pre.offset + 1) % Val(max_length)

\* an append on a full buffer moved the offset from C-1 back to 0, and slot 0
\* holds the oldest retained item
C11_Witness ==
    /\ last.op = "append"
    /\ ~IsNone(max_length)
    /\ Val(max_length) >= 2
    /\ len(last.pre) = Val(max_length)
    /\ last.pre.offset = Val(max_length) - 1
    /\ offset = 0
    /\ data[1] = stream[Len(stream) - len(Buf) + 1]

\* C12: an append on a full buffer writes the item into the physical slot at
\* the offset and nowhere else: every other slot keeps its item at its
\* position, and the storage keeps its length.
C12_InPlaceOverwrite ==
    (/\ last.op = "append"
     /\ Positive(last.pre)
     /\ ~IsNone(last.pre.max_length)
     /\ len(last.pre) = Val(last.pre.max_length)) =>
        /\ Len(data) = Len(last.pre.data)
        /\ data[last.pre.offset + 1] = last.items[1]
        /\ \A p \in 1..Len(data) :
               p # last.pre.offset + 1 => data[p] = last.pre.data[p]
        /\ max_length = last.pre.max_length

\* an append overwrote the middle slot of a full buffer of three items
C12_Witness ==
    /\ last.op = "append"
    /\ ~IsNone(max_length)
    /\ Val(max_length) >= 3
    /\ len(last.pre) = Val(max_length)
    /\ last.pre.offset = 1
    /\ data[2] = last.items[1]
    /\ data[1] = last.pre.data[1]
    /\ data[3] = last.pre.data[3]

\* C13, as claimed: the j-th item of a sample is the item at the LOGICAL index
\* drawn j-th, result[j] = get(i_j), so that the result depends on the
\* logical contents alone and not on the offset.
C13_SampleReadsLogicalIndex ==
    (last.op = "sample" /\ last.ok) =>
        \A j \in 1..Len(last.ret) :
            <<last.ret[j]>> = getitem(Buf, last.draws[j]).ret

\* C13, amended: the j-th item of a sample is the item in the PHYSICAL slot
\* drawn j-th, which is get((i_j - offset) mod length()); it is get(i_j) when
\* the offset is 0.  Buffers with equal logical contents return equal samples
\* for the same drawn indices when their offsets are equal.
C13_SampleReadsPhysicalSlot ==
    (last.op = "sample" /\ last.ok) =>
        /\ Len(last.ret) = Len(last.draws)
        /\ \A j \in 1..Len(last.ret) :
               /\ last.ret[j] = data[last.draws[j] + 1]
               /\ <<last.ret[j]>> =
                      getitem(Buf, PyMod(last.draws[j] - offset, len(Buf))).ret
               /\ offset = 0 => <<last.ret[j]>> = getitem(Buf, last.draws[j]).ret

\* a sample drew index 0 from a full buffer whose offset is 1 and returned
\* the newest item, which is get(-1), not get(0)
C13_Witness ==
    /\ last.op = "sample"
    /\ last.ok
    /\ last.size >= 1
    /\ ~IsNone(max_length)
    /\ len(Buf) = Val(max_length)
    /\ offset = 1
    /\ last.draws[1] = 0
    /\ <<last.ret[1]>> = getitem(Buf, 0 - 1).ret
    /\ <<last.ret[1]>> # getitem(Buf, 0).ret

\* C14: a step that is a length(), get or sample call, returning or raising,
\* leaves storage, offset and capacity as they were; no step changes the
\* capacity.
C14_ReadsChangeNothing ==
    [][/\ max_length' = max_length
       /\ (last' # last /\ last'.op \in {"len", "getitem", "sample"}) =>
              /\ data' = data
              /\ offset' = offset
              /\ last'.pre = Buf]_vars

\* a sample without replacement raised on a full buffer that has already
\* overwritten items, and the buffer is as the call found it
C14_Witness ==
    /\ last.op = "sample"
    /\ ~last.ok
    /\ ~IsNone(max_length)
    /\ len(Buf) = Val(max_length)
    /\ Len(stream) > len(Buf)
    /\ Buf = last.pre

\* C15: a step called when no episode is active (before the first reset has
\* returned, or after an episode-ending step and before the next reset)
\* raises RuntimeError, does not step the wrapped environment and leaves
\* the recorded returns as they were; a step that returns was called after
\* a reset returned, with no episode-ending step in between.
C15_StepNeedsEpisode ==
    /\ episode_running <=> since = "running"
    /\ elast.op = "step" =>
           /\ elast.hist.since # "running" =>
                  /\ ~elast.ok
                  /\ elast.err = "RuntimeError"
                  /\ env_steps = elast.pre.env_steps
                  /\ episode_returns = elast.pre.episode_returns
                  /\ Env = elast.pre
           /\ elast.ok => elast.hist.since = "running"

\* a step after the step that ended an episode raised
C15_Witness ==
    /\ elast.op = "step"
    /\ ~elast.ok
    /\ elast.hist.since = "over"
    /\ Len(episode_returns) >= 1
    /\ env_steps = elast.pre.env_steps

\* C16: once a reset(start_evaluation=True) has returned, a reset called
\* while an episode is running raises RuntimeError and leaves the wrapper's
\* state unchanged; so an episode begun at or after the start of the
\* evaluation cannot be abandoned, its return is tracked whatever the
\* logging flag was, and it is recorded by the step that ends it.
C16_ResetRefusedWhileEvaluating ==
    /\ eval_started <=> ~IsNone(evaluating_from)
    /\ (/\ elast.op = "reset"
        /\ elast.hist.eval_started
        /\ elast.pre.episode_running) =>
           /\ ~elast.ok
           /\ elast.err = "RuntimeError"
           /\ Env = elast.pre
           /\ Hist = elast.hist
    /\ (episode_running /\ eval_started) =>
           /\ cur_in_eval
           /\ ~IsNone(episode_return)
    /\ (/\ elast.op = "step"
        /\ elast.ok
        /\ elast.hist.cur_in_eval
        /\ (elast.terminated \/ elast.truncated)) =>
           /\ ~IsNone(elast.pre.episode_return)
           /\ episode_returns =
                  Append(elast.pre.episode_returns,
                         Val(elast.pre.episode_return) + elast.reward)
           /\ eval_completed = elast.hist.eval_completed + 1

\* during the evaluation, a reset(logging=False) on a running episode that
\* has already collected a reward raised and changed nothing
C16_Witness ==
    /\ elast.op = "reset"
    /\ ~elast.seeded
    /\ ~elast.logging
    /\ ~elast.ok
    /\ eval_started
    /\ episode_running
    /\ episode_return = <<1>>
    /\ Env = elast.pre

\* C17: with evaluate_for >= 1 the process exits on exactly the step that
\* ends the evaluate_for-th episode begun at or after the first
\* reset(start_evaluation=True), and never before such a reset;
\* evaluating_from, once set, does not change; at the exit the last
\* evaluate_for recorded returns are exactly those of the episodes of the
\* evaluation.
C17_ExitAfterEvaluateFor ==
    evaluate_for >= 1 =>
        /\ ~eval_started => (~exited /\ IsNone(evaluating_from))
        /\ ~IsNone(elast.pre.evaluating_from) =>
               evaluating_from = elast.pre.evaluating_from
        /\ ~exited => eval_completed < evaluate_for
        /\ exited =>
               /\ eval_started
               /\ elast.op = "step"
               /\ elast.ok
               /\ elast.terminated \/ elast.truncated
               /\ ~elast.pre.exited
               /\ eval_completed = evaluate_for
               /\ Len(episode_returns) = Val(evaluating_from) + evaluate_for
               /\ Len(in_eval) = Len(episode_returns)
               /\ \A i \in 1..Len(in_eval) :
                      in_eval[i] <=> i > Len(in_eval) - evaluate_for

\* the process exited on the step that ended the second evaluation episode;
\* one return was recorded before the evaluation and one earlier step
\* recorded nothing
C17_Witness ==
    /\ exited
    /\ evaluate_for = 2
    /\ evaluating_from = <<1>>
    /\ env_steps = 4
    /\ in_eval = <<FALSE, TRUE, TRUE>>

\* C18: observation returns indices inside the declared observation space:
\* without tiles one state of [0, prod(1 + len(separator))); with tiles,
\* component 0 in [0, first_tile_states) and component t >= 1 in
\* [first_tile_states + (t-1) * rest_tiles_states,
\*  first_tile_states + t * rest_tiles_states), so the ranges of different
\* tiles are disjoint and each index is below the declared size of its
\* component.
C18_ObservationInSpace ==
    dpc = "returned" =>
        LET space == observationSpace(separators, tiles)
            first == statesProduct(separators, 1)
            rest == statesProduct(separators, 2)
        IN  /\ Len(dret) = Len(space)
            /\ \A k \in 1..Len(dret) : 0 <= dret[k] /\ dret[k] < space[k]
            /\ IsNone(tiles) => Len(dret) = 1
            /\ dret[1] < first
            /\ ~IsNone(tiles) =>
                   /\ Len(dret) = Val(tiles)
                   /\ \A t \in 1..(Val(tiles) - 1) :
                          /\ first + (t - 1) * rest <= dret[t + 1]
                          /\ dret[t + 1] < first + t * rest
                   /\ \A k, l \in 1..Len(dret) : k # l => dret[k] # dret[l]

\* with two components of two separators each and two tiles, the shifted
\* observation of the second tile lies beyond the top in both components
\* and the tile's index is the largest of its range, 9 + 16 - 1
C18_Witness ==
    /\ dpc = "returned"
    /\ separators = <<<<0, 1>>, <<0, 1>>>>
    /\ tiles = <<2>>
    /\ dret = <<8, 24>>

=============================================================================
